---------------------------- MODULE Spec2Model ----------------------------
(* Model of stock_market/analysis/index.py: the IndexView constructor,   *)
(* the S&P 500 scraper _sp500 and its helper _stock_performers_ws.       *)
(* Strings are sequences of one-character strings, so that upper(),      *)
(* replace("\n", "") and split("\n") are computed character by           *)
(* character.                                                            *)
EXTENDS Integers, Sequences, FiniteSets, TLC

VARIABLES
    pc,           \* position in the running function
    index,        \* argument of IndexView.__init__
    data,         \* IndexView.data: "unset" or "loaded"
    requests,     \* number of requests.get calls issued so far
    metricIdx,    \* position of the for loop of _sp500 in its metric list
    response,     \* the response of the requests.get call being processed
    ws_dict,      \* _sp500: metric -> located Tag
    data_1,       \* _sp500: result of the period parsing
    data_2,       \* _sp500: result of _stock_performers_ws on the gainers
    data_3,       \* _sp500: result of _stock_performers_ws on the decliners
    metric_data,  \* _sp500: the returned dict
    printed,      \* metric named by the print of line 116, or "" if none
    outcome,      \* how the running function ended, "running" before
    steps         \* the statements executed so far, in order

vars == <<pc, index, data, requests, metricIdx, response, ws_dict,
          data_1, data_2, data_3, metric_data, printed, outcome, steps>>

-----------------------------------------------------------------------------
(* Bounds *)

MaxIndexLen == 5
MaxPageCells == 2
MaxPageRows == 2
MaxCells == 4
MaxTextLen == 2
MaxRows == 3
MaxRowLen == 4

BoundedSeq(S, n) == UNION {[1..k -> S] : k \in 0..n}

-----------------------------------------------------------------------------
(* Strings *)

NL == "\n"

IndexChars == {"s", "S", "p", "P", "5", "0", "x"}

Chars == {"X", NL}

\* str.upper(), one character
UpperChar(c) ==
    CASE c = "s" -> "S"
      [] c = "p" -> "P"
      [] c = "x" -> "X"
      [] OTHER -> c

\* the name compared as given, without upper-casing
upper_as_given(s) == s

\* str.upper()
upper(s) == [i \in 1..Len(s) |-> UpperChar(s[i])]

AVAILABLE_INDEX == {<<"S", "P", "5", "0", "0">>}

\* text.replace("\n", ""): scan the text and keep what is not a line break
RECURSIVE replace_nl(_)
replace_nl(t) ==
    IF t = <<>> THEN <<>>
    ELSE IF Head(t) = NL THEN replace_nl(Tail(t))
    ELSE <<Head(t)>> \o replace_nl(Tail(t))

\* text.split("\n"): the pieces between line breaks, empty pieces included
RECURSIVE split_from(_, _, _)
split_from(t, cur, acc) ==
    IF t = <<>> THEN Append(acc, cur)
    ELSE IF Head(t) = NL THEN split_from(Tail(t), <<>>, Append(acc, cur))
    ELSE split_from(Tail(t), Append(cur, Head(t)), acc)

split(t) == split_from(t, <<>>, <<>>)

\* every piece kept, the empty ones too
filter_keep_empty(pieces) == pieces

\* filter(None, pieces): the empty strings are dropped
filter_none(pieces) == SelectSeq(pieces, LAMBDA p : p # <<>>)

\* list(filter(None, row.text.split("\n")))
row_cells(t) == filter_none(split(t))

-----------------------------------------------------------------------------
(* Values *)

Metrics == <<"performance", "ByIndexGainers", "ByIndexDecliners">>

MetricNames == {Metrics[i] : i \in 1..Len(Metrics)}

None == [type |-> "None"]

\* a bs4 Tag: the number of its children, the texts of its td and tr descendants
Tag(n, tds, trs) == [type |-> "Tag", contents |-> n, td |-> tds, tr |-> trs]

EmptyDict == [k \in {} |-> <<>>]

\* an assignment that keeps the value of a key already present
DictSetFirstWins(d, k, v) ==
    [x \in (DOMAIN d) \cup {k} |-> IF x \in DOMAIN d THEN d[x] ELSE v]

\* d[k] = v on a dict
DictSet(d, k, v) == [x \in (DOMAIN d) \cup {k} |-> IF x = k THEN v ELSE d[x]]

NoResponse == [type |-> "none"]

Unset == [type |-> "unset"]

\* a cell pandas fills in for a row shorter than the widest row
MissingCell == <<"None">>

Max(S) == CHOOSE x \in S : \A y \in S : y <= x

PadRow(r, width) == r \o [i \in 1..(width - Len(r)) |-> MissingCell]

\* pd.DataFrame(stock_data, columns=col_names) on a list of lists: no rows give
\* an empty frame with the columns; otherwise the rows are padded to the widest
\* row and the number of columns passed must equal that width
DataFrame(stock_data, col_names) ==
    IF stock_data = <<>>
    THEN [type |-> "DataFrame", columns |-> col_names, rows |-> <<>>]
    ELSE LET width == Max({Len(stock_data[i]) : i \in 1..Len(stock_data)})
         IN  IF width # Len(col_names)
             THEN [type |-> "ValueError"]
             ELSE [type |-> "DataFrame", columns |-> col_names,
                   rows |-> [i \in 1..Len(stock_data) |-> PadRow(stock_data[i], width)]]

\* _stock_performers_ws(data)
_stock_performers_ws(tag) ==
    LET data_ws == tag.tr
    IN  IF Len(data_ws) = 0
        THEN None
        ELSE LET col_names == row_cells(data_ws[1])
                 stock_data == [r \in 1..(Len(data_ws) - 1) |-> row_cells(data_ws[r + 1])]
             IN  DataFrame(stock_data, col_names)

\* the loop of lines 127-129 from position i (1-based) with the dict built so far
RECURSIVE period_loop(_, _, _)
period_loop(cells, i, d) ==
    IF i > Len(cells) THEN [type |-> "dict", value |-> d]
    ELSE IF i + 1 > Len(cells) THEN [type |-> "IndexError"]
    ELSE period_loop(cells, i + 2,
                     DictSet(d, replace_nl(cells[i]), replace_nl(cells[i + 1])))

\* lines 125-129: data_1 from the td cells of the period block
period_parse(tag) == period_loop(tag.td, 1, EmptyDict)

-----------------------------------------------------------------------------
(* IndexView.__init__ *)

\* line 26: the availability check on the upper-cased name
CheckIndex ==
    /\ pc = "init"
    /\ IF upper(index) \notin AVAILABLE_INDEX
       THEN /\ outcome' = "Warning"
            /\ pc' = "done"
       ELSE /\ outcome' = outcome
            /\ pc' = "import"
    /\ steps' = Append(steps, <<"check", "index">>)
    /\ UNCHANGED <<index, data, requests, metricIdx, response, ws_dict,
                   data_1, data_2, data_3, metric_data, printed>>

\* lines 32-46: the reference data is imported and stored
ImportData ==
    /\ pc = "import"
    /\ data' = "loaded"
    /\ outcome' = "constructed"
    /\ pc' = "done"
    /\ steps' = Append(steps, <<"import", "stock_market.data">>)
    /\ UNCHANGED <<index, requests, metricIdx, response, ws_dict,
                   data_1, data_2, data_3, metric_data, printed>>

InitIndexView ==
    /\ pc = "init"
    /\ index \in BoundedSeq(IndexChars, MaxIndexLen)
    /\ data = "unset"
    /\ requests = 0
    /\ metricIdx = 1
    /\ response = NoResponse
    /\ ws_dict = [m \in MetricNames |-> Unset]
    /\ data_1 = Unset
    /\ data_2 = Unset
    /\ data_3 = Unset
    /\ metric_data = Unset
    /\ printed = ""
    /\ outcome = "running"
    /\ steps = <<>>

NextIndexView == CheckIndex \/ ImportData

SpecIndexView == InitIndexView /\ [][NextIndexView]_vars

-----------------------------------------------------------------------------
(* _sp500 *)

Statuses == {200, 404}

PageTexts == {<<"X">>}

PageRowTexts == {<<"X">>, <<"X", NL, "X">>}

\* what the page can hold for the period block
PerfBlocks ==
    {None, Tag(0, <<>>, <<>>)}
        \cup {Tag(1, tds, <<>>) : tds \in BoundedSeq(PageTexts, MaxPageCells)}

\* what the page can hold for a performers block
StockBlocks ==
    {None, Tag(0, <<>>, <<>>)}
        \cup {Tag(1, <<>>, trs) : trs \in BoundedSeq(PageRowTexts, MaxPageRows)}

\* the first div matching each metric's class pattern, None when there is none
Docs ==
    {[performance |-> a, ByIndexGainers |-> b, ByIndexDecliners |-> c] :
        a \in PerfBlocks, b \in StockBlocks, c \in StockBlocks}

\* line 111: requests.get(index_url); a transport failure raises, any HTTP
\* status is returned as a response
Get ==
    /\ pc = "get"
    /\ requests' = requests + 1
    /\ steps' = Append(steps, <<"get", Metrics[metricIdx]>>)
    /\ \/ /\ outcome' = "ConnectionError"
          /\ pc' = "done"
          /\ UNCHANGED response
       \/ /\ \E st \in Statuses, doc \in Docs :
                response' = [type |-> "Response", status_code |-> st, content |-> doc]
          /\ pc' = "find"
          /\ UNCHANGED outcome
    /\ UNCHANGED <<index, data, metricIdx, ws_dict, data_1, data_2, data_3,
                   metric_data, printed>>

\* lines 110-119: parse the content, find the div of the metric, check it
Find ==
    /\ pc = "find"
    /\ LET metric == Metrics[metricIdx]
           ws_metric == response.content[metric]
       IN  /\ steps' = Append(steps, <<"find", metric>>)
           /\ IF ws_metric = None
              THEN /\ outcome' = "TypeError"
                   /\ pc' = "done"
                   /\ UNCHANGED <<ws_dict, metricIdx, printed>>
              ELSE IF ws_metric.contents = 0
              THEN /\ printed' = metric
                   /\ outcome' = "return None"
                   /\ pc' = "done"
                   /\ UNCHANGED <<ws_dict, metricIdx>>
              ELSE /\ ws_dict' = [ws_dict EXCEPT ![metric] = ws_metric]
                   /\ IF metricIdx < Len(Metrics)
                      THEN /\ metricIdx' = metricIdx + 1
                           /\ pc' = "get"
                      ELSE /\ metricIdx' = metricIdx
                           /\ pc' = "period"
                   /\ UNCHANGED <<outcome, printed>>
    /\ response' = NoResponse
    /\ UNCHANGED <<index, data, requests, data_1, data_2, data_3, metric_data>>

\* lines 125-129
ParsePeriod ==
    /\ pc = "period"
    /\ LET r == period_parse(ws_dict["performance"])
       IN  IF r.type = "IndexError"
           THEN /\ outcome' = "IndexError"
                /\ pc' = "done"
                /\ UNCHANGED data_1
           ELSE /\ data_1' = r
                /\ pc' = "top"
                /\ UNCHANGED outcome
    /\ steps' = Append(steps, <<"parse", "performance">>)
    /\ UNCHANGED <<index, data, requests, metricIdx, response, ws_dict,
                   data_2, data_3, metric_data, printed>>

\* line 132
ParseTop ==
    /\ pc = "top"
    /\ LET r == _stock_performers_ws(ws_dict["ByIndexGainers"])
       IN  IF r.type = "ValueError"
           THEN /\ outcome' = "ValueError"
                /\ pc' = "done"
                /\ UNCHANGED data_2
           ELSE /\ data_2' = r
                /\ pc' = "bottom"
                /\ UNCHANGED outcome
    /\ steps' = Append(steps, <<"parse", "ByIndexGainers">>)
    /\ UNCHANGED <<index, data, requests, metricIdx, response, ws_dict,
                   data_1, data_3, metric_data, printed>>

\* line 135
ParseBottom ==
    /\ pc = "bottom"
    /\ LET r == _stock_performers_ws(ws_dict["ByIndexDecliners"])
       IN  IF r.type = "ValueError"
           THEN /\ outcome' = "ValueError"
                /\ pc' = "done"
                /\ UNCHANGED data_3
           ELSE /\ data_3' = r
                /\ pc' = "return"
                /\ UNCHANGED outcome
    /\ steps' = Append(steps, <<"parse", "ByIndexDecliners">>)
    /\ UNCHANGED <<index, data, requests, metricIdx, response, ws_dict,
                   data_1, data_2, metric_data, printed>>

\* lines 138-142
Return ==
    /\ pc = "return"
    /\ metric_data' = [type |-> "dict", performance |-> data_1,
                       ByIndexGainers |-> data_2, ByIndexDecliners |-> data_3]
    /\ outcome' = "return metric_data"
    /\ pc' = "done"
    /\ UNCHANGED <<index, data, requests, metricIdx, response, ws_dict,
                   data_1, data_2, data_3, printed, steps>>

Init ==
    /\ pc = "get"
    /\ index = <<"S", "P", "5", "0", "0">>
    /\ data = "unset"
    /\ requests = 0
    /\ metricIdx = 1
    /\ response = NoResponse
    /\ ws_dict = [m \in MetricNames |-> Unset]
    /\ data_1 = Unset
    /\ data_2 = Unset
    /\ data_3 = Unset
    /\ metric_data = Unset
    /\ printed = ""
    /\ outcome = "running"
    /\ steps = <<>>

Next == Get \/ Find \/ ParsePeriod \/ ParseTop \/ ParseBottom \/ Return

Spec == Init /\ [][Next]_vars

-----------------------------------------------------------------------------
(* _sp500 from line 125 on, for every content of the located period block *)

LocateSteps ==
    <<<<"get", "performance">>, <<"find", "performance">>,
      <<"get", "ByIndexGainers">>, <<"find", "ByIndexGainers">>,
      <<"get", "ByIndexDecliners">>, <<"find", "ByIndexDecliners">>>>

HeaderOnly == Tag(1, <<>>, <<<<"X">>>>)

InitPeriod ==
    /\ pc = "period"
    /\ index = <<"S", "P", "5", "0", "0">>
    /\ data = "unset"
    /\ requests = Len(Metrics)
    /\ metricIdx = Len(Metrics)
    /\ response = NoResponse
    /\ \E tds \in BoundedSeq(BoundedSeq(Chars, MaxTextLen), MaxCells) :
           ws_dict = [m \in MetricNames |->
                         IF m = "performance" THEN Tag(1, tds, <<>>) ELSE HeaderOnly]
    /\ data_1 = Unset
    /\ data_2 = Unset
    /\ data_3 = Unset
    /\ metric_data = Unset
    /\ printed = ""
    /\ outcome = "running"
    /\ steps = LocateSteps

NextPeriod == ParsePeriod \/ ParseTop \/ ParseBottom \/ Return

SpecPeriod == InitPeriod /\ [][NextPeriod]_vars

-----------------------------------------------------------------------------
(* _sp500 from line 132 on, for every content of the located gainers block *)

OnePair == [type |-> "dict", value |-> DictSet(EmptyDict, <<"X">>, <<"X">>)]

InitTable ==
    /\ pc = "top"
    /\ index = <<"S", "P", "5", "0", "0">>
    /\ data = "unset"
    /\ requests = Len(Metrics)
    /\ metricIdx = Len(Metrics)
    /\ response = NoResponse
    /\ \E trs \in BoundedSeq(BoundedSeq(Chars, MaxRowLen), MaxRows) :
           ws_dict = [m \in MetricNames |->
                         IF m = "ByIndexGainers" THEN Tag(1, <<>>, trs)
                         ELSE IF m = "performance" THEN Tag(1, <<<<"X">>, <<"X">>>>, <<>>)
                         ELSE HeaderOnly]
    /\ data_1 = OnePair
    /\ data_2 = Unset
    /\ data_3 = Unset
    /\ metric_data = Unset
    /\ printed = ""
    /\ outcome = "running"
    /\ steps = Append(LocateSteps, <<"parse", "performance">>)

NextTable == ParseTop \/ ParseBottom \/ Return

SpecTable == InitTable /\ [][NextTable]_vars

-----------------------------------------------------------------------------
(* Properties *)

\* the failure the code reports for a metric: the message of line 116 naming
\* the metric, then return None
StructureMismatch(m) == outcome = "return None" /\ printed = m

Failed == outcome \notin {"running", "return metric_data", "constructed"}

Done(kind, m) == \E i \in 1..Len(steps) : steps[i] = <<kind, m>>

\* the find and parse steps executed so far, in order
Work == SelectSeq(steps, LAMBDA st : st[1] \in {"find", "parse"})

IsPrefix(a, b) == Len(a) <= Len(b) /\ \A i \in 1..Len(a) : a[i] = b[i]

\* C1: a finished _sp500 call either returns a bundle whose three slots are a
\* period mapping and two performer tables, or fails and returns no bundle; no
\* slot of a returned bundle is None or unset.
C1_BundleOrFailure ==
    pc = "done" =>
        IF outcome = "return metric_data"
        THEN /\ metric_data.type = "dict"
             /\ metric_data.performance.type = "dict"
             /\ metric_data.ByIndexGainers.type = "DataFrame"
             /\ metric_data.ByIndexDecliners.type = "DataFrame"
        ELSE Failed /\ metric_data = Unset

\* C2: one _sp500 call issues at most one HTTP GET, and exactly one once a
\* metric has been searched for.
C2_SingleGet ==
    /\ requests <= 1
    /\ (\E m \in MetricNames : Done("find", m)) => requests = 1

\* the order of work the claim C3 states: locate then parse, metric by metric
ClaimedOrder ==
    <<<<"find", "performance">>, <<"parse", "performance">>,
      <<"find", "ByIndexGainers">>, <<"parse", "ByIndexGainers">>,
      <<"find", "ByIndexDecliners">>, <<"parse", "ByIndexDecliners">>>>

PeriodMalformed(tag) == Len(tag.td) = 0 \/ Len(tag.td) % 2 = 1

\* C3: the metrics are processed in the order period, top, bottom with locate
\* then parse for each; a malformed period block ends the call with the
\* StructureMismatch of the period metric before the gainers are searched for,
\* and a failed call returns no bundle.
C3_FirstFailureWins ==
    /\ IsPrefix(Work, ClaimedOrder)
    /\ (ws_dict["performance"].type = "Tag" /\ PeriodMalformed(ws_dict["performance"]))
          => /\ ~Done("find", "ByIndexGainers")
             /\ (pc = "done" /\ outcome # "ConnectionError")
                   => StructureMismatch("performance")
    /\ Failed => metric_data = Unset

\* C4: a find step on a document without the div of the metric, or with an
\* empty one, ends the call with the StructureMismatch naming that metric and
\* without a bundle.
C4_LocateFailure ==
    [][(pc = "find" /\ (response.content[Metrics[metricIdx]] = None
                        \/ response.content[Metrics[metricIdx]].contents = 0))
          => (/\ outcome' = "return None"
              /\ printed' = Metrics[metricIdx]
              /\ pc' = "done"
              /\ metric_data' = Unset)]_vars

\* C5: once the period block with an odd number of cells, or none, has been
\* parsed, the call has failed with the StructureMismatch of the period metric
\* and there is no period mapping.
C5_OddOrZeroCells ==
    (Done("parse", "performance") /\ PeriodMalformed(ws_dict["performance"]))
        => /\ StructureMismatch("performance")
           /\ data_1 = Unset

\* C6: a response with a non-2xx status ends the call with the fetch error
\* before any find step; it is never handed to the find step.
C6_NonSuccessIsFetchError ==
    (response.type = "Response" /\ response.status_code \notin 200..299)
        => /\ outcome = "ConnectionError"
           /\ pc = "done"

\* the identifiers that name a supported index in some letter case, stated
\* letter by letter
SameLetter(a, b) == a = b \/ {a, b} \in {{"s", "S"}, {"p", "P"}, {"x", "X"}}

Supported(name) ==
    \E a \in AVAILABLE_INDEX :
        /\ Len(name) = Len(a)
        /\ \A i \in 1..Len(a) : SameLetter(name[i], a[i])

\* C7: an unsupported identifier makes the constructor raise at its first step,
\* before any request and before the reference data is loaded; a supported
\* identifier in any letter case is accepted.
C7_UnsupportedFailsFirst ==
    /\ outcome = "Warning" =>
          requests = 0 /\ data = "unset" /\ steps = <<<<"check", "index">>>>
    /\ pc # "init" => (outcome = "Warning" <=> ~Supported(index))
    /\ (pc = "done" /\ Supported(index)) => (outcome = "constructed" /\ data = "loaded")

C7_Witness ==
    /\ pc = "done"
    /\ outcome = "Warning"
    /\ Len(index) = MaxIndexLen
    /\ index[1] = "s"

\* a text without its line breaks
Stripped(t) == SelectSeq(t, LAMBDA ch : ch # NL)

PeriodCells == ws_dict["performance"].td

\* the label positions 2i-1 of the cell sequence that hold the label k
Occurrences(k) ==
    {i \in 1..(Len(PeriodCells) \div 2) : Stripped(PeriodCells[2 * i - 1]) = k}

\* C8: for a non-empty cell sequence of even length the period parser returns
\* the mapping from each label (line breaks removed) to the value (line breaks
\* removed) that follows the last occurrence of that label.
C8_PairwiseLastWins ==
    (pc # "period" /\ Len(PeriodCells) > 0 /\ Len(PeriodCells) % 2 = 0)
        => /\ data_1.type = "dict"
           /\ DOMAIN data_1.value =
                 {Stripped(PeriodCells[2 * i - 1]) : i \in 1..(Len(PeriodCells) \div 2)}
           /\ \A k \in DOMAIN data_1.value :
                 data_1.value[k] = Stripped(PeriodCells[2 * Max(Occurrences(k))])

C8_Witness ==
    /\ pc = "done"
    /\ Len(PeriodCells) = 4
    /\ PeriodCells[1] # PeriodCells[3]
    /\ Stripped(PeriodCells[1]) = Stripped(PeriodCells[3])
    /\ Stripped(PeriodCells[2]) # Stripped(PeriodCells[4])
    /\ Cardinality(DOMAIN data_1.value) = 1

\* the positions of a row text where a run of characters other than line
\* breaks starts
RunStarts(t) == {i \in 1..Len(t) : t[i] # NL /\ (i = 1 \/ t[i - 1] = NL)}

\* the last position of the run that starts at i
RunEnd(t, i) == Max({j \in i..Len(t) : \A x \in i..j : t[x] # NL})

\* the runs of a row text in order
Runs(t) ==
    [n \in 1..Cardinality(RunStarts(t)) |->
        LET i == CHOOSE x \in RunStarts(t) :
                     Cardinality({y \in RunStarts(t) : y < x}) = n - 1
        IN  SubSeq(t, i, RunEnd(t, i))]

GainerRows == ws_dict["ByIndexGainers"].tr

\* C9: when row 0 of the gainers block has N non-empty fragments and every
\* later row has N too, the extractor returns a table whose header is the
\* fragments of row 0 and whose data rows are the fragments of the rows 1..k in
\* order; no empty fragment becomes a cell.
C9_RectangularInput ==
    (/\ pc # "top"
     /\ Len(GainerRows) >= 1
     /\ \A r \in 2..Len(GainerRows) : Len(Runs(GainerRows[r])) = Len(Runs(GainerRows[1])))
        => /\ data_2.type = "DataFrame"
           /\ data_2.columns = Runs(GainerRows[1])
           /\ Len(data_2.rows) = Len(GainerRows) - 1
           /\ \A r \in 1..Len(data_2.rows) :
                 /\ data_2.rows[r] = Runs(GainerRows[r + 1])
                 /\ Len(data_2.rows[r]) = Len(data_2.columns)
                 /\ \A c \in 1..Len(data_2.rows[r]) : data_2.rows[r][c] # <<>>

C9_Witness ==
    /\ pc = "done"
    /\ Len(GainerRows) = MaxRows
    /\ data_2.type = "DataFrame"
    /\ Len(data_2.columns) = 2
    /\ \E r \in 2..Len(GainerRows) : Len(GainerRows[r]) > Len(Stripped(GainerRows[r])) + 1
    /\ \A r \in 1..Len(data_2.rows) : Len(data_2.rows[r]) = 2

\* C10: every returned table has data rows made of exactly the fragments of
\* their row, as many as the header has names; a row with another number of
\* fragments is reported as an error and no table is returned.
C10_RowWidth ==
    pc # "top" =>
        /\ data_2.type = "DataFrame" =>
              \A r \in 1..Len(data_2.rows) :
                  /\ Len(data_2.rows[r]) = Len(data_2.columns)
                  /\ data_2.rows[r] = Runs(GainerRows[r + 1])
        /\ (\E r \in 2..Len(GainerRows) :
                Len(Runs(GainerRows[r])) # Len(Runs(GainerRows[1])))
              => (data_2 = Unset /\ outcome = "ValueError")

=============================================================================
